---- MODULE Spec2Model ----
(***************************************************************************)
(* Simple Shift Manager v2 (src/app_code.py): the JSON document store,     *)
(* the task ledger (add_task, mark_complete), the employee registry        *)
(* (Add Employee, Save, delete_employee, token backfill) and two browser   *)
(* sessions racing on the store.                                           *)
(***************************************************************************)
EXTENDS Integers, Sequences, FiniteSets, TLC

VARIABLES file, nuuid, last, sess, overlap, writes

vars == <<file, nuuid, last, sess, overlap, writes>>

(* ------------------------------------------------------------------ *)
(* Bounds of the model                                                 *)
(* ------------------------------------------------------------------ *)
MaxUuid == 8        \* uuid4() is called at most this many times
MaxTasks == 2       \* add_task is not called on a ledger this long

(* ------------------------------------------------------------------ *)
(* Program constants                                                   *)
(* ------------------------------------------------------------------ *)
NumDefault == 6     \* range(6): the placeholder employees of a new store

(* ------------------------------------------------------------------ *)
(* Values and conversions                                              *)
(* ------------------------------------------------------------------ *)
Digit == <<"0", "1", "2", "3", "4", "5", "6", "7", "8", "9">>

\* str(n) of a non-negative int: its decimal digits.
RECURSIVE Str(_)
Str(n) == IF n < 10 THEN Digit[n + 1] ELSE Str(n \div 10) \o Digit[(n % 10) + 1]

\* The largest number an id of the model can denote.
MaxInt == NumDefault + MaxUuid + 2

\* int(s) of a decimal string: the number whose digits it holds.
ParseInt(s) == CHOOSE n \in 0..MaxInt : Str(n) = s

\* str(uuid4()): the n-th identifier drawn; distinct draws give distinct strings.
Uuid4(n) == "uuid-" \o Str(n)

\* An optional value: None is the empty tuple, a value v is <<v>>.
None == <<>>
Some(v) == <<v>>

\* Python truthiness of an optional string: None and "" are falsy.
Truthy(p) == p # None /\ p[1] # ""

\* s.strip() on the strings the inputs are drawn from.
Strip(s) ==
  CASE s = " Al " -> "Al"
    [] s = " 49" -> "49"
    [] s = " a@b " -> "a@b"
    [] s = " " -> ""
    [] OTHER -> s

\* date.isoformat(): YYYY-MM-DD with zero padding.
Pad2(n) == IF n < 10 THEN "0" \o Str(n) ELSE Str(n)
IsoFormat(d) == Str(d[1]) \o "-" \o Pad2(d[2]) \o "-" \o Pad2(d[3])

\* A list comprehension with a filter: the elements of s from index i on whose
\* index is in keep, in order.
RECURSIVE SelectIdx(_, _, _)
SelectIdx(s, keep, i) ==
  IF i > Len(s) THEN <<>>
  ELSE (IF i \in keep THEN <<s[i]>> ELSE <<>>) \o SelectIdx(s, keep, i + 1)

EmptyDoc == [employees |-> <<>>, tasks |-> <<>>]

\* The backing file: absent, unparseable, or holding a JSON document.
AbsentFile == [state |-> "absent", doc |-> EmptyDoc]
CorruptFile == [state |-> "corrupt", doc |-> EmptyDoc]

\* A store written by an earlier variant: one record has no token.
LegacyDoc ==
  [employees |->
     << [id |-> "1", name |-> "Ann", phone |-> "", email |-> "", token |-> ""],
        [id |-> "6", name |-> "Bob", phone |-> "49", email |-> "", token |-> "legacy-6"] >>,
   tasks |->
     << [task_id |-> "legacy-t1", employee_id |-> "6", task_text |-> "Open shop",
         shift |-> "Morning", date |-> "2026-01-30", assigned_at |-> "T0",
         completed |-> TRUE, proof |-> <<"legacy-t1.png">>, completed_at |-> <<"T0">>],
        [task_id |-> "legacy-t2", employee_id |-> "1", task_text |-> "Count till",
         shift |-> "Night", date |-> "2026-01-30", assigned_at |-> "T0",
         completed |-> FALSE, proof |-> <<>>, completed_at |-> <<>>],
        [task_id |-> "legacy-t3", employee_id |-> "1", task_text |-> "Lock up",
         shift |-> "Night", date |-> "2026-01-30", assigned_at |-> "T0",
         completed |-> FALSE, proof |-> <<>>, completed_at |-> <<>>] >>]

\* save_data: the whole document replaces the file's content.
save_data(data) == [state |-> "json", doc |-> data]

\* load_data on file f with n identifiers drawn so far: the document returned,
\* the file afterwards, the identifiers drawn afterwards, and whether the
\* default document was created.
\* DefaultEmployee with the identifier drawn once, outside the comprehension.
DefaultEmployeeOneToken(i, n) ==
  [id |-> Str(i + 1), name |-> "Employee " \o Str(i + 1), phone |-> "",
   email |-> "", token |-> Uuid4(n + 1)]

DefaultEmployee(i, n) ==
  [id |-> Str(i + 1), name |-> "Employee " \o Str(i + 1), phone |-> "",
   email |-> "", token |-> Uuid4(n + i + 1)]

load_data(f, n) ==
  IF f.state = "absent"
  THEN LET employees == [k \in 1..NumDefault |-> DefaultEmployee(k - 1, n)]
           data == [employees |-> employees, tasks |-> <<>>]
       IN [data |-> data, file |-> save_data(data), nuuid |-> n + NumDefault,
           created |-> TRUE]
  ELSE IF f.state = "corrupt"
  THEN [data |-> EmptyDoc, file |-> f, nuuid |-> n, created |-> FALSE]
  ELSE [data |-> f.doc, file |-> f, nuuid |-> n, created |-> FALSE]

(* ------------------------------------------------------------------ *)
(* The mutations, as functions of the loaded document                  *)
(* ------------------------------------------------------------------ *)

\* NewTask with an empty proof name in place of None.
NewTaskEmptyProof(uuid, employee_id, task_text, shift_label, task_date, now) ==
  [task_id |-> uuid, employee_id |-> employee_id, task_text |-> task_text,
   shift |-> shift_label, date |-> IsoFormat(task_date), assigned_at |-> now,
   completed |-> FALSE, proof |-> Some(""), completed_at |-> None]

\* The task dict add_task builds.
NewTask(uuid, employee_id, task_text, shift_label, task_date, now) ==
  [task_id |-> uuid, employee_id |-> employee_id, task_text |-> task_text,
   shift |-> shift_label, date |-> IsoFormat(task_date), assigned_at |-> now,
   completed |-> FALSE, proof |-> None, completed_at |-> None]

\* AppendTask inserting at the front of the list.
AppendTaskFront(data, task) == [data EXCEPT !.tasks = <<task>> \o @]

\* data["tasks"].append(task)
AppendTask(data, task) == [data EXCEPT !.tasks = Append(@, task)]

\* The loop of mark_complete: the first task with the id is completed.
Matches(tasks, task_id) == {i \in 1..Len(tasks) : tasks[i].task_id = task_id}

FirstMatch(tasks, task_id) ==
  CHOOSE i \in Matches(tasks, task_id) : \A j \in Matches(tasks, task_id) : i <= j

\* CompleteTask flipping the flag instead of setting it.
CompleteTaskToggle(t, proof_fname, now) ==
  [t EXCEPT !.completed = ~@,
            !.proof = IF Truthy(proof_fname) THEN proof_fname ELSE @,
            !.completed_at = Some(now)]

\* CompleteTask storing the proof argument whether or not one was given.
CompleteTaskOverwrite(t, proof_fname, now) ==
  [t EXCEPT !.completed = TRUE, !.proof = proof_fname, !.completed_at = Some(now)]

CompleteTask(t, proof_fname, now) ==
  [t EXCEPT !.completed = TRUE,
            !.proof = IF Truthy(proof_fname) THEN proof_fname ELSE @,
            !.completed_at = Some(now)]

\* MarkIn without the id test: the loop completes the first task and breaks.
MarkInFirst(data, task_id, proof_fname, now) ==
  IF Len(data.tasks) = 0 THEN data
  ELSE [data EXCEPT !.tasks[1] = CompleteTask(@, proof_fname, now)]

MarkIn(data, task_id, proof_fname, now) ==
  IF Matches(data.tasks, task_id) = {} THEN data
  ELSE LET i == FirstMatch(data.tasks, task_id)
       IN [data EXCEPT !.tasks[i] = CompleteTask(@, proof_fname, now)]

\* DeleteIn without the second comprehension: the tasks are left in place.
DeleteInKeepTasks(data, emp_id) ==
  LET keepEmp == {i \in 1..Len(data.employees) : data.employees[i].id # emp_id}
  IN [employees |-> SelectIdx(data.employees, keepEmp, 1), tasks |-> data.tasks]

\* The two list comprehensions of delete_employee.
DeleteIn(data, emp_id) ==
  LET keepEmp == {i \in 1..Len(data.employees) : data.employees[i].id # emp_id}
      keepTask == {i \in 1..Len(data.tasks) : data.tasks[i].employee_id # emp_id}
  IN [employees |-> SelectIdx(data.employees, keepEmp, 1),
      tasks |-> SelectIdx(data.tasks, keepTask, 1)]

\* max([int(e["id"]) for e in employees] + [0]) + 1, as a string.
MaxOf(S) == CHOOSE m \in S : \A x \in S : x <= m

\* next_id counting the records instead of taking the highest id.
next_id_by_count(employees) == Str(Len(employees) + 1)

next_id(employees) ==
  Str(MaxOf({ParseInt(employees[i].id) : i \in 1..Len(employees)} \cup {0}) + 1)

\* The record the Add Employee handler appends.
AppendEmployee(data, new_name, new_phone, new_email, uuid) ==
  [data EXCEPT !.employees =
     Append(@, [id |-> next_id(data.employees), name |-> Strip(new_name),
                phone |-> Strip(new_phone), email |-> Strip(new_email),
                token |-> uuid])]

\* The Save handler on the i-th employee of the snapshot.
UpdateEmployee(data, i, name, phone, email) ==
  [data EXCEPT !.employees[i] =
     [@ EXCEPT !.name = Strip(name), !.phone = Strip(phone), !.email = Strip(email)]]

\* Missing without the test for an existing token.
MissingAll(employees) == 1..Len(employees)

\* The share-link loop: every record without a token gets a fresh one.
Missing(employees) == {i \in 1..Len(employees) : employees[i].token = ""}

Rank(employees, i) == Cardinality({j \in Missing(employees) : j <= i})

FillTokens(data, n) ==
  [data EXCEPT !.employees =
     [i \in 1..Len(data.employees) |->
        IF i \in Missing(data.employees)
        THEN [data.employees[i] EXCEPT !.token = Uuid4(n + Rank(data.employees, i))]
        ELSE data.employees[i]]]

\* A script run in which no button fires, on file f: load_data, then the
\* share-link loop, which saves only when it filled a token.
ScriptTail(f, n) ==
  LET ld == load_data(f, n)
      miss == Missing(ld.data.employees)
  IN IF miss = {} THEN [file |-> ld.file, nuuid |-> ld.nuuid]
     ELSE [file |-> save_data(FillTokens(ld.data, ld.nuuid)),
           nuuid |-> ld.nuuid + Cardinality(miss)]

(* ------------------------------------------------------------------ *)
(* Inputs                                                              *)
(* ------------------------------------------------------------------ *)
Sessions == {1, 2}
AssignTimes == {"T0"}
Times == {"T1"}
ProofArgs == {None, Some(""), Some("a.jpg")}
EmpArgs == {Str(NumDefault), Str(NumDefault + 1)}
TaskInputs == {<<Str(1), "Clean counter", "Morning", <<2026, 11, 3>>>>,
               <<Str(NumDefault), "Mop floor", "Night", <<2026, 1, 31>>>>}
NewInputs == {<<" ", " 49", "">>, <<" Al ", " 49", "">>}
SaveInputs == {<<" Al ", " 49", " a@b ">>}

\* The ids mark_complete is called with: those of the tasks of document d, and
\* one that no task has.
TaskIdArgs(d) == {d.tasks[i].task_id : i \in 1..Len(d.tasks)} \cup {"no-such-task"}

(* ------------------------------------------------------------------ *)
(* State                                                               *)
(* ------------------------------------------------------------------ *)
\* The document a reader of file f gets: what load_data parses, the empty
\* document for an absent or unparseable file.
DocOf(f) == IF f.state = "json" THEN f.doc ELSE EmptyDoc

NoCall == [op |-> "none", id |-> "", proof |-> FALSE, ret |-> "", err |-> FALSE,
           created |-> FALSE, repeat |-> "no", hit |-> FALSE]

\* The record of the operation that ran last: the id it was given, what it
\* returned or reported, whether its load_data created the store and whether it
\* found what it looked for; of a mark_complete that found its task, also
\* whether it was given a proof that counts and whether it followed a
\* mark_complete of the same id (and whether that one was given such a proof).
Call(op, id, proof, ld, ret, err, hit) ==
  [op |-> op, id |-> id, proof |-> hit /\ Truthy(proof), ret |-> ret, err |-> err,
   created |-> ld.created,
   repeat |-> IF hit /\ op = "mark_complete" /\ last.op = "mark_complete" /\ last.id = id
              THEN (IF last.proof THEN "after-proof" ELSE "after-plain")
              ELSE "no",
   hit |-> hit]

\* A browser session: where its script run stands, the operation it runs with
\* its arguments, the document as loaded, the document as mutated and written,
\* what the operation returned and the message shown.
Idle == [pc |-> "idle", op |-> "none", id |-> "", proof |-> None, snap |-> EmptyDoc,
         data |-> EmptyDoc, ret |-> "", msg |-> ""]

\* Before the first operation the store is absent, unparseable or left by an
\* earlier variant; a store that exists has had the identifiers of the default
\* document drawn for it.
Init ==
  /\ \/ file = AbsentFile /\ nuuid = 0
     \/ file \in {CorruptFile, save_data(LegacyDoc)} /\ nuuid = NumDefault
  /\ last = NoCall
  /\ sess = [s \in Sessions |-> Idle]
  /\ overlap = FALSE
  /\ writes = <<>>

(* ------------------------------------------------------------------ *)
(* Operations, one at a time                                           *)
(* ------------------------------------------------------------------ *)
add_task(employee_id, task_text, shift_label, task_date, now) ==
  LET ld == load_data(file, nuuid)
      task == NewTask(Uuid4(ld.nuuid + 1), employee_id, task_text, shift_label,
                      task_date, now)
  IN /\ ld.nuuid + 1 <= MaxUuid
     /\ Len(ld.data.tasks) < MaxTasks
     /\ file' = save_data(AppendTask(ld.data, task))
     /\ nuuid' = ld.nuuid + 1
     /\ last' = Call("add_task", employee_id, None, ld, task.task_id, FALSE, TRUE)
     /\ UNCHANGED <<sess, overlap, writes>>

mark_complete(task_id, proof_fname, now) ==
  LET ld == load_data(file, nuuid)
  IN /\ ld.nuuid <= MaxUuid
     /\ task_id \in TaskIdArgs(ld.data)
     /\ file' = save_data(MarkIn(ld.data, task_id, proof_fname, now))
     /\ nuuid' = ld.nuuid
     /\ last' = Call("mark_complete", task_id, proof_fname, ld, "", FALSE,
                     Matches(ld.data.tasks, task_id) # {})
     /\ UNCHANGED <<sess, overlap, writes>>

delete_employee(emp_id) ==
  LET ld == load_data(file, nuuid)
  IN /\ ld.nuuid <= MaxUuid
     /\ file' = save_data(DeleteIn(ld.data, emp_id))
     /\ nuuid' = ld.nuuid
     /\ last' = Call("delete_employee", emp_id, None, ld, "", FALSE,
                     \E i \in 1..Len(ld.data.employees) : ld.data.employees[i].id = emp_id)
     /\ UNCHANGED <<sess, overlap, writes>>

\* A script run with the Add Employee button pressed.  An empty name is
\* reported and the run goes on to the share-link loop; otherwise the record
\* is saved and the script reruns.
AddEmployee(new_name, new_phone, new_email) ==
  LET ld == load_data(file, nuuid)
      bad == Strip(new_name) = ""
      added == AppendEmployee(ld.data, new_name, new_phone, new_email,
                              Uuid4(ld.nuuid + 1))
      tail == IF bad THEN ScriptTail(ld.file, ld.nuuid)
              ELSE ScriptTail(save_data(added), ld.nuuid + 1)
  IN /\ tail.nuuid <= MaxUuid
     /\ file' = tail.file
     /\ nuuid' = tail.nuuid
     /\ last' = Call("addEmployee", "", None, ld,
                     IF bad THEN "" ELSE next_id(ld.data.employees), bad, ~bad)
     /\ UNCHANGED <<sess, overlap, writes>>

\* A script run with the Save button of the i-th employee pressed.
SaveEmployee(i, name, phone, email) ==
  LET ld == load_data(file, nuuid)
      tail == ScriptTail(save_data(UpdateEmployee(ld.data, i, name, phone, email)),
                         ld.nuuid)
  IN /\ i \in 1..Len(ld.data.employees)
     /\ ld.data.employees[i].id \in EmpArgs
     /\ tail.nuuid <= MaxUuid
     /\ file' = tail.file
     /\ nuuid' = tail.nuuid
     /\ last' = Call("updateEmployee", ld.data.employees[i].id, None, ld, "", FALSE,
                     TRUE)
     /\ UNCHANGED <<sess, overlap, writes>>

\* A script run in which no button fires: the share-link loop backfills tokens.
ShareLinks ==
  LET ld == load_data(file, nuuid)
      tail == ScriptTail(file, nuuid)
  IN /\ tail.nuuid <= MaxUuid
     /\ file' = tail.file
     /\ nuuid' = tail.nuuid
     /\ last' = Call("ensureToken", "", None, ld, "", FALSE,
                     Missing(ld.data.employees) # {})
     /\ UNCHANGED <<sess, overlap, writes>>

Next ==
  \/ \E in \in TaskInputs, now \in AssignTimes : add_task(in[1], in[2], in[3], in[4], now)
  \/ \E id \in TaskIdArgs(DocOf(file)), p \in ProofArgs, now \in Times :
       mark_complete(id, p, now)
  \/ \E id \in EmpArgs : delete_employee(id)
  \/ \E in \in NewInputs : AddEmployee(in[1], in[2], in[3])
  \/ \E i \in 1..Len(DocOf(file).employees) \cup 1..NumDefault, in \in SaveInputs : SaveEmployee(i, in[1], in[2], in[3])
  \/ ShareLinks

Spec == Init /\ [][Next]_vars

(* ------------------------------------------------------------------ *)
(* Properties of the operations run one at a time                      *)
(* ------------------------------------------------------------------ *)
TasksOf(f) == DocOf(f).tasks
EmployeesOf(f) == DocOf(f).employees
TaskIds(tasks) == {tasks[i].task_id : i \in 1..Len(tasks)}
EmpIds(employees) == {employees[i].id : i \in 1..Len(employees)}
TaskWithId(tasks, id) == tasks[CHOOSE i \in 1..Len(tasks) : tasks[i].task_id = id]
EmpWithId(employees, id) == employees[CHOOSE i \in 1..Len(employees) : employees[i].id = id]

\* The document the operation of this step starts from: the persisted one, or
\* the default document its load_data creates.
Before == load_data(file, nuuid).data

\* after holds exactly the elements of before at the indices in kept, in order.
IsSelection(before, after, kept) ==
  /\ Len(after) = Cardinality(kept)
  /\ \A i \in kept : after[Cardinality({j \in kept : j <= i})] = before[i]

\* C1: a task persisted as completed is completed in every later document that
\* still holds it, and a task goes from pending to completed only in a
\* mark_complete of its id.
C1_CompletedNeverReverts ==
  [][\A id \in TaskIds(TasksOf(file)) \cap TaskIds(TasksOf(file')) :
       LET t == TaskWithId(TasksOf(file), id)
           u == TaskWithId(TasksOf(file'), id)
       IN /\ t.completed => u.completed
          /\ (~t.completed /\ u.completed) =>
               (last'.op = "mark_complete" /\ last'.id = id)]_vars

\* C1 witness: a task completed by mark_complete is still completed after a
\* later Save of an employee.
C1_Witness ==
  /\ last.op = "updateEmployee"
  /\ \E id \in TaskIds(TasksOf(file)) :
       LET t == TaskWithId(TasksOf(file), id)
       IN t.completed /\ t.completed_at = Some("T1")

\* C2: delete_employee(id) keeps exactly the employees whose id differs and the
\* tasks whose employee_id differs, unchanged and in their order.
C2_DeleteExactly ==
  [][last'.op = "delete_employee" =>
       LET b == Before
           keptE == {i \in 1..Len(b.employees) : b.employees[i].id # last'.id}
           keptT == {i \in 1..Len(b.tasks) : b.tasks[i].employee_id # last'.id}
       IN /\ file'.state = "json"
          /\ IsSelection(b.employees, file'.doc.employees, keptE)
          /\ IsSelection(b.tasks, file'.doc.tasks, keptT)]_vars

\* C2 witness: employee 6 of the legacy store was removed with its task, and
\* two tasks of another employee remain.
C2_Witness ==
  /\ last.op = "delete_employee" /\ last.id = "6" /\ last.hit
  /\ "legacy-t1" \notin TaskIds(TasksOf(file))
  /\ "legacy-t2" \in TaskIds(TasksOf(file))
  /\ Len(TasksOf(file)) >= 2
  /\ Len(EmployeesOf(file)) >= 1

\* C3: mark_complete with an id no task has reports nothing and leaves the
\* document as it was; a file that held a document is left unchanged.
C3_UnknownIdNoOp ==
  [][(last'.op = "mark_complete" /\ last'.id \notin TaskIds(Before.tasks)) =>
       /\ ~last'.err
       /\ DocOf(file') = Before
       /\ file.state = "json" => file' = file]_vars

\* C3 witness: mark_complete ran with an unknown id on a document with tasks.
C3_Witness ==
  /\ last.op = "mark_complete" /\ ~last.hit
  /\ last.id \notin TaskIds(TasksOf(file))
  /\ Len(TasksOf(file)) >= 1

\* C4: a second mark_complete of the same existing task leaves it completed;
\* a proof set by the first call is still set, and it is the same proof when
\* the second call brings none.
C4_MarkTwice ==
  [][(last'.repeat # "no" /\ last'.id \in TaskIds(TasksOf(file))) =>
       LET t == TaskWithId(TasksOf(file), last'.id)
           u == TaskWithId(TasksOf(file'), last'.id)
       IN /\ t.completed /\ u.completed
          /\ last'.repeat = "after-proof" => (t.proof # None /\ u.proof # None)
          /\ ~last'.proof => u.proof = t.proof]_vars

\* C4 witness: the task was completed with a proof and then completed again
\* without one, and holds the first proof.
C4_Witness ==
  /\ last.op = "mark_complete" /\ last.repeat = "after-proof" /\ last.hit /\ ~last.proof
  /\ TaskWithId(TasksOf(file), last.id).proof = Some("a.jpg")

\* C5: load_data, as a script run with no button pressed calls it, on an absent
\* file persists six employees "1".."6" named
\* "Employee 1".."Employee 6" with blank phone and email, distinct non-empty
\* tokens and no task; the next such run changes nothing and draws no
\* identifier.
C5_DefaultDocument ==
  /\ [](last.op = "ensureToken" /\ last.created =>
          /\ file.state = "json"
          /\ file.doc.tasks = <<>>
          /\ Len(file.doc.employees) = 6
          /\ [i \in 1..6 |-> file.doc.employees[i].id] = <<"1", "2", "3", "4", "5", "6">>
          /\ [i \in 1..6 |-> file.doc.employees[i].name] =
               <<"Employee 1", "Employee 2", "Employee 3", "Employee 4", "Employee 5",
                 "Employee 6">>
          /\ \A i \in 1..6 : /\ file.doc.employees[i].phone = ""
                             /\ file.doc.employees[i].email = ""
                             /\ file.doc.employees[i].token # ""
          /\ \A i, j \in 1..6 :
               i # j => file.doc.employees[i].token # file.doc.employees[j].token)
  /\ [][(/\ last'.op = "ensureToken" /\ file.state = "json"
          /\ \A i \in 1..Len(file.doc.employees) : file.doc.employees[i].token # "") =>
          (file' = file /\ nuuid' = nuuid /\ ~last'.created)]_vars

\* C5 witness: the load_data of a script run has just created the store.
C5_Witness == last.op = "ensureToken" /\ last.created /\ file.state = "json"

\* C6: add_task appends one task, pending and without proof, at the end of the
\* ledger and persists it; its id finds that task alone, and the tasks and
\* employees that were there are unchanged.
C6_AddTaskAppends ==
  [][last'.op = "add_task" =>
       LET b == Before
           n == Len(b.tasks)
       IN /\ file'.state = "json"
          /\ file'.doc.employees = b.employees
          /\ Len(file'.doc.tasks) = n + 1
          /\ SubSeq(file'.doc.tasks, 1, n) = b.tasks
          /\ file'.doc.tasks[n + 1].task_id = last'.ret
          /\ file'.doc.tasks[n + 1].employee_id = last'.id
          /\ file'.doc.tasks[n + 1].completed = FALSE
          /\ file'.doc.tasks[n + 1].proof = None
          /\ {i \in 1..(n + 1) : file'.doc.tasks[i].task_id = last'.ret} = {n + 1}]_vars

\* C6 witness: add_task has added a second task with the employee, date and
\* shift of one that was there.
C6_Witness ==
  /\ last.op = "add_task"
  /\ LET ts == TasksOf(file)
     IN /\ Len(ts) >= 2
        /\ ts[Len(ts)].task_id = last.ret
        /\ \E i \in 1..(Len(ts) - 1) :
             /\ ts[i].employee_id = ts[Len(ts)].employee_id
             /\ ts[i].date = ts[Len(ts)].date
             /\ ts[i].shift = ts[Len(ts)].shift

\* C7: Add Employee with a name gives the new record the id max + 1 of the
\* numeric ids present (1 when there is none), above every id present; no two
\* employees of a persisted document share an id.
C7_FreshEmployeeId ==
  /\ [](\A i, j \in 1..Len(EmployeesOf(file)) :
          i # j => EmployeesOf(file)[i].id # EmployeesOf(file)[j].id)
  /\ [][(last'.op = "addEmployee" /\ ~last'.err) =>
          LET b == Before
              n == Len(b.employees)
              new == file'.doc.employees[n + 1]
          IN /\ Len(file'.doc.employees) = n + 1
             /\ \A i \in 1..n : /\ file'.doc.employees[i].id = b.employees[i].id
                                /\ ParseInt(new.id) > ParseInt(b.employees[i].id)
             /\ n = 0 => new.id = "1"
             /\ n > 0 => \E i \in 1..n : ParseInt(new.id) = ParseInt(b.employees[i].id) + 1]_vars

\* C7 witness: an employee was added after the one with the highest id had been
\* removed, to a registry that still holds others.
C7_Witness ==
  /\ last.op = "addEmployee" /\ ~last.err
  /\ Len(EmployeesOf(file)) >= 2
  /\ "legacy-t1" \notin TaskIds(TasksOf(file)) /\ "legacy-t2" \in TaskIds(TasksOf(file))
  /\ EmployeesOf(file)[Len(EmployeesOf(file))].id = "2"

\* C8: a token, once set, stays as it is while the record exists.  Save changes
\* name, phone and email of one record and nothing else; the share-link loop
\* changes nothing when every record has a token, and otherwise only fills
\* the tokens that are missing.
SameBut(e, f, token) ==
  f = [e EXCEPT !.token = token]

C8_TokenStable ==
  [][/\ \A id \in EmpIds(EmployeesOf(file)) \cap EmpIds(EmployeesOf(file')) :
          LET e == EmpWithId(EmployeesOf(file), id)
              f == EmpWithId(EmployeesOf(file'), id)
          IN e.token # "" => f.token = e.token
     /\ last'.op = "updateEmployee" =>
          LET b == Before
          IN /\ file'.doc.tasks = b.tasks
             /\ Len(file'.doc.employees) = Len(b.employees)
             /\ \A i \in 1..Len(b.employees) :
                  LET e == b.employees[i]
                      f == file'.doc.employees[i]
                  IN /\ f.id = e.id
                     /\ f.token # ""
                     /\ e.token # "" => f.token = e.token
                     /\ e.id # last'.id => SameBut(e, f, f.token)
     /\ (last'.op = "ensureToken" /\ file.state = "json") =>
          /\ (\A i \in 1..Len(file.doc.employees) : file.doc.employees[i].token # "")
               => (file' = file /\ nuuid' = nuuid)
          /\ file'.doc.tasks = file.doc.tasks
          /\ Len(file'.doc.employees) = Len(file.doc.employees)
          /\ \A i \in 1..Len(file.doc.employees) :
               LET e == file.doc.employees[i]
                   f == file'.doc.employees[i]
               IN /\ SameBut(e, f, f.token)
                  /\ f.token # ""
                  /\ e.token # "" => f.token = e.token]_vars

\* C8 witness: the share-link loop ran with nothing to fill, on a store whose
\* record 6 was saved with a new name and kept its token and whose record 1
\* had its token filled.
C8_Witness ==
  /\ last.op = "ensureToken" /\ ~last.hit
  /\ "6" \in EmpIds(EmployeesOf(file)) /\ "1" \in EmpIds(EmployeesOf(file))
  /\ EmpWithId(EmployeesOf(file), "6").name = "Al"
  /\ EmpWithId(EmployeesOf(file), "6").token = "legacy-6"
  /\ EmpWithId(EmployeesOf(file), "1").name = "Ann"
  /\ EmpWithId(EmployeesOf(file), "1").token # ""

\* C9: a task has a proof only if it is completed, and a task that has a proof
\* has one in every later document that still holds it.
C9_ProofOnlyOnCompletion ==
  /\ [](\A i \in 1..Len(TasksOf(file)) :
          TasksOf(file)[i].proof # None => TasksOf(file)[i].completed)
  /\ [][\A id \in TaskIds(TasksOf(file)) \cap TaskIds(TasksOf(file')) :
          TaskWithId(TasksOf(file), id).proof # None =>
            TaskWithId(TasksOf(file'), id).proof # None]_vars

\* C9 witness: a task created by add_task was completed with a proof and holds
\* it after a later mark_complete that brought an empty proof name.
C9_Witness ==
  /\ last.op = "mark_complete" /\ last.hit /\ ~last.proof
  /\ last.id \notin {"legacy-t1", "legacy-t2", "legacy-t3"}
  /\ TaskWithId(TasksOf(file), last.id).proof # None

(* ------------------------------------------------------------------ *)
(* Two sessions, each running one load -> mutate -> save cycle         *)
(* ------------------------------------------------------------------ *)
RaceOps == {"add_task", "mark_complete", "delete_employee", "addEmployee",
            "updateEmployee"}

\* What a session passes as the argument of its operation: an employee id for
\* add_task, delete_employee and Save, a task id of the loaded document for
\* mark_complete, the name typed for Add Employee.
RaceIds(op, d) ==
  IF op = "mark_complete" THEN TaskIdArgs(d)
  ELSE IF op = "addEmployee" THEN {" Al ", " "}
  ELSE IF op = "updateEmployee" THEN EmpArgs \cap EmpIds(d.employees)
  ELSE {Str(NumDefault)}

\* The store the sessions start on: none yet, or the legacy store after the
\* share-link loop has filled its tokens.
RaceInit ==
  /\ \/ file = AbsentFile /\ nuuid = 0
     \/ file = save_data(FillTokens(LegacyDoc, NumDefault)) /\ nuuid = NumDefault + 1
  /\ last = NoCall
  /\ sess = [s \in Sessions |-> Idle]
  /\ overlap = FALSE
  /\ writes = <<>>

\* The load_data of a cycle: line 86 for the Add Employee and Save handlers,
\* the first line of add_task, mark_complete and delete_employee.
SessLoad(s, op, id, proof) ==
  LET ld == load_data(file, nuuid)
  IN /\ sess[s].pc = "idle"
     /\ ld.nuuid <= MaxUuid
     /\ id \in RaceIds(op, ld.data)
     /\ file' = ld.file
     /\ nuuid' = ld.nuuid
     /\ sess' = [sess EXCEPT ![s] = [pc |-> "loaded", op |-> op, id |-> id,
                                     proof |-> proof, snap |-> ld.data,
                                     data |-> ld.data, ret |-> "", msg |-> ""]]
     /\ overlap' = (overlap \/ \E o \in Sessions \ {s} : sess[o].pc = "loaded")
     /\ UNCHANGED <<last, writes>>

\* The document a session writes: its operation applied to the document d.
Mutated(c, d, uuid, now) ==
  CASE c.op = "add_task" ->
         AppendTask(d, NewTask(uuid, c.id, "Clean counter", "Morning",
                               <<2026, 11, 3>>, now))
    [] c.op = "mark_complete" -> MarkIn(d, c.id, c.proof, now)
    [] c.op = "delete_employee" -> DeleteIn(d, c.id)
    [] c.op = "addEmployee" -> AppendEmployee(d, c.id, " 49", "", uuid)
    [] OTHER ->
         UpdateEmployee(d, CHOOSE i \in 1..Len(d.employees) : d.employees[i].id = c.id,
                        " Al ", " 49", " a@b ")

Draws(c) == IF c.op \in {"add_task", "addEmployee"} THEN 1 ELSE 0

\* MutationBase reading the file again at the time of the save.
MutationBaseFresh(s) == DocOf(file)

\* The document the mutation of session s is applied to: the one it loaded.
MutationBase(s) == sess[s].data

\* The rest of the cycle: the mutation of the loaded document and save_data.
SessSave(s, now) ==
  LET c == sess[s]
      uuid == Uuid4(nuuid + 1)
      d == Mutated(c, MutationBase(s), uuid, now)
  IN /\ c.pc = "loaded"
     /\ ~(c.op = "addEmployee" /\ Strip(c.id) = "")
     /\ c.op = "updateEmployee" => c.id \in EmpIds(MutationBase(s).employees)
     /\ nuuid + Draws(c) <= MaxUuid
     /\ file' = save_data(d)
     /\ nuuid' = nuuid + Draws(c)
     /\ writes' = Append(writes, s)
     /\ sess' = [sess EXCEPT ![s] = [c EXCEPT !.pc = "done", !.data = d,
                                              !.ret = IF Draws(c) = 1 THEN uuid ELSE "",
                                              !.msg = "success"]]
     /\ UNCHANGED <<last, overlap>>

\* Add Employee with an empty name: the error is shown and nothing is saved.
SessReject(s) ==
  LET c == sess[s]
  IN /\ c.pc = "loaded"
     /\ c.op = "addEmployee" /\ Strip(c.id) = ""
     /\ sess' = [sess EXCEPT ![s] = [c EXCEPT !.pc = "done", !.msg = "error"]]
     /\ UNCHANGED <<file, nuuid, last, overlap, writes>>

RaceNext ==
  \/ \E s \in Sessions, op \in RaceOps, p \in {None, Some("a.jpg")} :
       \E id \in RaceIds(op, load_data(file, nuuid).data) :
         /\ (op # "mark_complete" => p = None)
         /\ SessLoad(s, op, id, p)
  \/ \E s \in Sessions, now \in Times : SessSave(s, now)
  \/ \E s \in Sessions : SessReject(s)

SpecRace == RaceInit /\ [][RaceNext]_vars

\* C10: when both sessions loaded before either saved, the file after both
\* saves is the document the later one wrote, the earlier one's added task,
\* added employee, completion or edit is not in it, and neither was shown an
\* error.
C10_LastWriterWins ==
  (overlap /\ Len(writes) = 2 /\ \A s \in Sessions : sess[s].pc = "done") =>
    LET e == sess[writes[1]]
        l == sess[writes[2]]
    IN /\ file = save_data(l.data)
       /\ e.snap = l.snap
       /\ e.msg = "success" /\ l.msg = "success"
       /\ e.op = "add_task" => e.ret \notin TaskIds(file.doc.tasks)
       /\ e.op = "addEmployee" =>
            \A i \in 1..Len(file.doc.employees) : file.doc.employees[i].token # e.ret
       /\ (/\ e.op = "mark_complete"
           /\ e.id \in TaskIds(e.snap.tasks) \cap TaskIds(file.doc.tasks)
           /\ ~(l.op = "mark_complete" /\ l.id = e.id)) =>
            TaskWithId(file.doc.tasks, e.id) = TaskWithId(e.snap.tasks, e.id)
       /\ (/\ e.op = "updateEmployee"
           /\ e.id \in EmpIds(file.doc.employees)
           /\ ~(l.op = "updateEmployee" /\ l.id = e.id)) =>
            EmpWithId(file.doc.employees, e.id) = EmpWithId(e.snap.employees, e.id)
       /\ (e.op = "delete_employee" /\ l.op # "delete_employee") =>
            EmpIds(e.snap.employees) \subseteq EmpIds(file.doc.employees)

\* C10 witness: both sessions loaded, the first to save completed a pending
\* task, the second added a task, and the file holds the task still pending.
C10_Witness ==
  /\ overlap /\ Len(writes) = 2 /\ \A s \in Sessions : sess[s].pc = "done"
  /\ sess[writes[1]].op = "mark_complete" /\ sess[writes[1]].id = "legacy-t2"
  /\ sess[writes[2]].op = "add_task"
  /\ ~TaskWithId(file.doc.tasks, "legacy-t2").completed
  /\ TaskWithId(sess[writes[1]].data.tasks, "legacy-t2").completed

====
